---- MODULE Spec2Model ----
(***************************************************************************)
(* Model of the recording command line interface                           *)
(* (python/examples/project_nav_man/object_record_commad_line.py).         *)
(*                                                                         *)
(* A Python str is a sequence of one-character strings.  The remote        *)
(* services are the environment: every remote call draws its answer from   *)
(* a small set (a value, None where the code tests for it, or a raised     *)
(* exception).  The variables calls, printed and invoked record what the   *)
(* dispatcher did since it last read a line at the top-level prompt.       *)
(***************************************************************************)
EXTENDS Naturals, Sequences, FiniteSets, TLC

\* ------------------------------------------------------------------ bounds

\* Largest number of NotReadyYetError answers a finite stop_recording script gives.
MaxNotReady == 3

\* Largest number of argument tokens typed after the command token.
MaxArgs == 3

\* ----------------------------------------------------------------- strings

\* Python's None where a str is expected: no str of the model equals it.
None == <<"None">>

\* Python's None where a graph is expected.
NoGraph == [none |-> TRUE]

\* The characters str.split() without argument splits at (str.isspace), as
\* far as a string of the model can hold them: blank, tab, newline, carriage
\* return, form feed; vertical tab (0B); the file, group, record and unit
\* separators (1C to 1F); next line (85), no-break space (A0) and ogham
\* space mark (1680). The others (2000 to 200A, 2028, 2029, 202F, 205F, 3000)
\* cannot be written in a string here.
Whitespace ==
    {" ", "\t", "\n", "\r", "\f", "", "", "", "", "",
     "", " ", " "}

IsSpace(c) == c \in Whitespace

RECURSIVE SplitWs(_, _, _)
SplitWs(s, cur, acc) ==
    IF s = <<>> THEN (IF cur = <<>> THEN acc ELSE Append(acc, cur))
    ELSE IF IsSpace(Head(s))
         THEN SplitWs(Tail(s), <<>>, IF cur = <<>> THEN acc ELSE Append(acc, cur))
         ELSE SplitWs(Tail(s), Append(cur, Head(s)), acc)

\* str.split(s): the whitespace-separated tokens of s, none of them empty.
str_split(s) == SplitWs(s, <<>>, <<>>)

RECURSIVE SplitSep(_, _, _, _)
SplitSep(s, sep, cur, acc) ==
    IF s = <<>> THEN Append(acc, cur)
    ELSE IF Head(s) = sep
         THEN SplitSep(Tail(s), sep, <<>>, Append(acc, cur))
         ELSE SplitSep(Tail(s), sep, Append(cur, Head(s)), acc)

\* s.split(sep): the sep-separated fields of s, empty fields kept.
split_on(s, sep) == SplitSep(s, sep, <<>>, <<>>)

RECURSIVE JoinSp(_)
JoinSp(toks) ==
    IF toks = <<>> THEN <<>>
    ELSE IF Len(toks) = 1 THEN Head(toks)
    ELSE Head(toks) \o <<" ">> \o JoinSp(Tail(toks))

\* ------------------------------------------------------------- string data

S_downloaded_graph ==
    <<"d","o","w","n","l","o","a","d","e","d","_","g","r","a","p","h">>
S_slash == <<"/">>
S_default == <<"d","e","f","a","u","l","t">>
S_dock == <<"d","o","c","k">>
S_nope == <<"n","o","p","e">>
S_ab == <<"a","b">>
S_cd == <<"c","d">>
S_x == <<"x">>
Id_ab1 == <<"a","-","b","-","1">>
Id_ab2 == <<"a","-","b","-","2">>
Id_cd3 == <<"c","-","d","-","3">>
Snap_s1 == <<"s","1">>
Snap_s2 == <<"s","2">>
Snap_e1 == <<"e","1">>

\* ------------------------------------------------------------------ graphs

Wp(id, name, ts, snap) ==
    [id |-> id, name |-> name, ts |-> ts, snapshot_id |-> snap]

Ed(from, to, snap) ==
    [from_waypoint |-> from, to_waypoint |-> to, snapshot_id |-> snap]

GEmpty == [waypoints |-> <<>>, edges |-> <<>>]

GOne == [waypoints |-> <<Wp(Id_cd3, S_dock, 1, Snap_s1)>>, edges |-> <<>>]

\* Listed out of creation order; two waypoints share the short code "ab" and
\* the annotation name "default"; one waypoint and one edge have no snapshot.
GThree ==
    [waypoints |-> <<Wp(Id_ab2, S_default, 3, Snap_s2),
                     Wp(Id_cd3, S_dock, 1, Snap_s1),
                     Wp(Id_ab1, S_default, 2, <<>>)>>,
     edges |-> <<Ed(Id_cd3, Id_ab1, Snap_e1), Ed(Id_ab1, Id_ab2, <<>>),
                 Ed(Id_ab2, Id_ab1, <<>>)>>]

\* Two waypoints listed newest first, each with a snapshot, and one edge with
\* a snapshot.
GTwo ==
    [waypoints |-> <<Wp(Id_cd3, S_dock, 2, Snap_s1), Wp(Id_ab1, S_default, 1, Snap_s2)>>,
     edges |-> <<Ed(Id_ab1, Id_cd3, Snap_e1)>>]

\* The graphs download_graph answers with.
Graphs == {GEmpty, GOne, GTwo, GThree}

\* What a download_graph call can do: a graph, None, or an exception.
DownloadOutcomes == Graphs \cup {NoGraph, [raised |-> TRUE]}

Raised(o) == o = [raised |-> TRUE]

\* ------------------------------------------- graph_nav_util (helper module)

\* id_to_short_code: the first characters of the first two '-'-separated
\* fields of a waypoint id that has more than two fields, else None.
id_to_short_code(id) ==
    LET tokens == split_on(id, "-") IN
    IF Len(tokens) > 2 /\ tokens[1] # <<>> /\ tokens[2] # <<>>
    THEN <<tokens[1][1], tokens[2][1]>>
    ELSE None

\* A Python dict: a function; d[k] = v added or replaced.
DictPut(d, k, v) == [x \in DOMAIN d \cup {k} |-> IF x = k THEN v ELSE d[x]]

RECURSIVE NameToId(_, _)
NameToId(wps, d) ==
    IF wps = <<>> THEN d
    ELSE LET w == Head(wps) IN
         NameToId(Tail(wps),
                  IF w.name = <<>> THEN d
                  ELSE IF w.name \in DOMAIN d THEN DictPut(d, w.name, None)
                  ELSE DictPut(d, w.name, w.id))

SeqHas(s, x) == \E i \in 1..Len(s) : s[i] = x

RECURSIVE EdgeMap(_, _)
EdgeMap(es, d) ==
    IF es = <<>> THEN d
    ELSE LET e == Head(es) IN
         EdgeMap(Tail(es),
                 IF e.to_waypoint \in DOMAIN d
                 THEN (IF SeqHas(d[e.to_waypoint], e.from_waypoint) THEN d
                       ELSE DictPut(d, e.to_waypoint,
                                    Append(d[e.to_waypoint], e.from_waypoint)))
                 ELSE DictPut(d, e.to_waypoint, <<e.from_waypoint>>))

\* update_waypoints_and_edges: the annotation-name-to-id map (None for a name
\* that several waypoints carry) and the map from a to-waypoint to its
\* from-waypoints.
update_waypoints_and_edges(graph) ==
    [names |-> NameToId(graph.waypoints, <<>>),
     edges |-> EdgeMap(graph.edges, <<>>)]

RECURSIVE ShortCodeScan(_, _, _)
ShortCodeScan(wps, short_code, ret) ==
    IF wps = <<>> THEN ret
    ELSE IF short_code = id_to_short_code(Head(wps).id)
         THEN (IF ret # short_code THEN short_code
               ELSE ShortCodeScan(Tail(wps), short_code, Head(wps).id))
         ELSE ShortCodeScan(Tail(wps), short_code, ret)

\* find_unique_waypoint_id: a two-character reference is a short code, any
\* other is an annotation name of the map or else taken to be an id.
find_unique_waypoint_id(short_code, graph, name_to_id) ==
    IF graph = NoGraph THEN None
    ELSE IF Len(short_code) # 2
         THEN (IF short_code \in DOMAIN name_to_id
               THEN name_to_id[short_code]
               ELSE short_code)
         ELSE ShortCodeScan(graph.waypoints, short_code, short_code)

RECURSIVE InsertChrono(_, _)
InsertChrono(sorted, w) ==
    IF sorted = <<>> THEN <<w>>
    ELSE IF w.ts < Head(sorted).ts THEN <<w>> \o sorted
    ELSE <<Head(sorted)>> \o InsertChrono(Tail(sorted), w)

RECURSIVE SortChrono(_, _)
SortChrono(wps, sorted) ==
    IF wps = <<>> THEN sorted
    ELSE SortChrono(Tail(wps), InsertChrono(sorted, Head(wps)))

\* sort_waypoints_chrono: the waypoints by creation time, oldest first.
sort_waypoints_chrono(graph) == SortChrono(graph.waypoints, <<>>)

\* ------------------------------------------------------------------- state

VARIABLES
    pc,          \* where the control thread is (see PcValues)
    inputs,      \* the line last read at the top-level prompt
    invoked,     \* handlers run() called for that line: <<[handler, args]>>
    calls,       \* remote calls issued since the last input() read
    printed,     \* messages printed since the last input() read
    sleeps,      \* time.sleep(1.0) calls since the last input() read
    written,     \* files written since the last input() read
    _current_graph,
    _current_edges,
    _current_annotation_name_to_wp_id,
    _download_filepath,
    first_iter,  \* _stop_recording's local
    svc_not_ready,  \* NotReadyYetError answers stop_recording gives first
    svc_forever,    \* stop_recording answers NotReadyYetError for ever
    svc_final,      \* what stop_recording answers after that
    sub_inputs,     \* the line last read at a prompt inside a handler
    g_image_clicks, \* self.g_image_clicks
    capt_graph,     \* _capt_object's local graph while it waits for keys
    handler_exc,    \* what cmd_func raised into run's try ("": nothing)
    power_pc,       \* where cycle_power.main is ("idle": it is not the program run)
    power_calls,    \* the power client calls cycle_power.main made
    power_printed   \* what cycle_power.main printed

cache == <<_current_graph, _current_edges, _current_annotation_name_to_wp_id>>
svc == <<svc_not_ready, svc_forever, svc_final>>
log == <<calls, printed, sleeps, written>>
capt == <<sub_inputs, g_image_clicks, capt_graph>>
power == <<power_pc, power_calls, power_printed>>
vars == <<pc, inputs, invoked, calls, printed, sleeps, written, _current_graph,
          _current_edges, _current_annotation_name_to_wp_id,
          _download_filepath, first_iter, svc_not_ready, svc_forever,
          svc_final, sub_inputs, g_image_clicks, capt_graph, handler_exc,
          power_pc, power_calls, power_printed>>

\* The variables of the recording command line.
recording == <<pc, inputs, invoked, log, cache, _download_filepath, first_iter,
               svc, capt, handler_exc>>

\* main: main has parsed its options.  startup_failed: an exception left main
\* before run was called.
\* prompt: in input('>') of run.  dispatch: run has read a line.
\* stop_recording: in the retry loop.  auto_close_loops_prompt, add_object,
\* waypoint_name: in an input() inside that handler.  capture: in the key
\* loop of _capt_object.  returned: run returned.  raised: an exception left
\* run.  exited: exit(0) ended the process.
PcValues ==
    {"main", "startup_failed",
     "prompt", "dispatch", "stop_recording", "auto_close_loops_prompt",
     "add_object", "waypoint_name", "capture", "returned", "raised", "exited"}

\* A remote call that answers or raises.
RpcOutcomes == {"ok", "raise"}

\* ------------------------------------------------- a handler's running state

\* What a handler has done so far: the cache as it left it, its remote calls,
\* its messages, and the exception it raised ("" for none).
Ctx0 ==
    [graph |-> _current_graph, names |-> _current_annotation_name_to_wp_id,
     edges |-> _current_edges, calls |-> <<>>, printed |-> <<>>,
     written |-> <<>>, exc |-> ""]

Msg(m, a) == [msg |-> m, arg |-> a]
Rpc(r, a) == [rpc |-> r, arg |-> a]

Call(c, r, a) == [c EXCEPT !.calls = Append(@, Rpc(r, a))]
\* A download call, logged with what it answered.
CallRet(c, r, a, ret) ==
    [c EXCEPT !.calls = Append(@, [rpc |-> r, arg |-> a, ret |-> ret])]
Say(c, m, a) == [c EXCEPT !.printed = Append(@, Msg(m, a))]
Raise(c, e) == [c EXCEPT !.exc = e]

\* ------------------------------------------------------------ the dispatcher

K0 == <<"0">>
K1 == <<"1">>
K2 == <<"2">>
K3 == <<"3">>
K4 == <<"4">>
K5 == <<"5">>
K6 == <<"6">>
K7 == <<"7">>
K8 == <<"8">>
K9 == <<"9">>
Ka == <<"a">>
Ko == <<"o">>
Kq == <<"q">>

\* The dictionary with the handlers of '7' and '8' exchanged.
_command_dictionary_swapped ==
    (K0 :> "_clear_map") @@ (K1 :> "_start_recording") @@
    (K2 :> "_stop_recording") @@ (K3 :> "_get_recording_status") @@
    (K4 :> "_create_default_waypoint") @@ (K5 :> "_download_full_graph") @@
    (K6 :> "_list_graph_waypoint_and_edge_ids") @@ (K7 :> "_create_loop") @@
    (K8 :> "_create_new_edge") @@ (K9 :> "_auto_close_loops_prompt") @@
    (Ka :> "_optimize_anchoring") @@ (Ko :> "_add_object")

\* self._command_dictionary
_command_dictionary ==
    (K0 :> "_clear_map") @@ (K1 :> "_start_recording") @@
    (K2 :> "_stop_recording") @@ (K3 :> "_get_recording_status") @@
    (K4 :> "_create_default_waypoint") @@ (K5 :> "_download_full_graph") @@
    (K6 :> "_list_graph_waypoint_and_edge_ids") @@ (K7 :> "_create_new_edge") @@
    (K8 :> "_create_loop") @@ (K9 :> "_auto_close_loops_prompt") @@
    (Ka :> "_optimize_anchoring") @@ (Ko :> "_add_object")

\* The constructor adding '/' whether or not the path ends with one.
init_download_filepath_always_slash(download_filepath) ==
    download_filepath \o S_slash \o S_downloaded_graph

\* The constructor: the download path gets exactly one '/' before the name.
init_download_filepath(download_filepath) ==
    IF download_filepath[Len(download_filepath)] = "/"
    THEN download_filepath \o S_downloaded_graph
    ELSE download_filepath \o S_slash \o S_downloaded_graph

\* The --download-filepath values a session is started with.
DownloadPaths == {<<"/","m">>, <<"/","m","/">>}

\* main is entered: no RecordingInterface yet, so no download path.
Init ==
    /\ pc = "main"
    /\ inputs = <<>>
    /\ invoked = <<>>
    /\ calls = <<>>
    /\ printed = <<>>
    /\ sleeps = 0
    /\ written = <<>>
    /\ _current_graph = NoGraph
    /\ _current_edges = <<>>
    /\ _current_annotation_name_to_wp_id = <<>>
    /\ _download_filepath = None
    /\ first_iter = TRUE
    /\ svc_not_ready = 0
    /\ svc_forever = FALSE
    /\ svc_final = "ok"
    /\ sub_inputs = <<>>
    /\ g_image_clicks = <<>>
    /\ capt_graph = NoGraph
    /\ handler_exc = ""
    /\ power_pc = "idle"
    /\ power_calls = <<>>
    /\ power_printed = <<>>

\* main up to recording_command_line.run(): authenticate raises and the
\* exception leaves main, or the RecordingInterface is constructed and run is
\* called.
main_startup ==
    /\ pc = "main"
    /\ power_pc = "idle"
    /\ \E p \in DownloadPaths, auth \in RpcOutcomes :
          IF auth = "raise"
          THEN pc' = "startup_failed" /\ UNCHANGED _download_filepath
          ELSE pc' = "prompt" /\ _download_filepath' = init_download_filepath(p)
    /\ UNCHANGED <<inputs, invoked, log, cache, first_iter, svc, capt, handler_exc>>
    /\ UNCHANGED power

\* main returning True whatever way run ended.
main_returns_true(run_end) ==
    CASE run_end \in {"returned", "raised"} -> "True"
      [] OTHER -> "no return"

\* main: try: run(); return True; except Exception: ...; return False.  run_end
\* is the way run ended; exit(0) and a failed startup leave main with an
\* exception, so it returns nothing.
main_returns(run_end) ==
    CASE run_end = "returned" -> "True"
      [] run_end = "raised" -> "False"
      [] OTHER -> "no return"

\* The exit status of the process: if not main(...): sys.exit(1); an
\* exception out of main ends the process with status 1, exit(0) with 0.
exit_status(run_end) ==
    CASE main_returns(run_end) = "True" -> "0"
      [] main_returns(run_end) = "False" -> "1"
      [] run_end = "exited" -> "0"
      [] run_end = "startup_failed" -> "1"
      [] OTHER -> "running"

\* ------------------------------------------------------------ typed lines

\* Waypoint references typed after the create-edge command.
Refs == {S_cd, S_ab, S_dock, S_default, Id_ab1, S_nope}

\* The argument lists typed after the create-edge command: every list of up
\* to two references, and longer lists of one repeated reference.
EdgeArgLists ==
    {<<>>} \cup {<<r>> : r \in Refs} \cup {<<r, s>> : r \in Refs, s \in Refs}
    \cup {[i \in 1..n |-> S_cd] : n \in 3..MaxArgs}

\* The argument lists typed after any other command.
OtherArgLists == {<<>>, <<S_x>>}

\* Tokens that are neither 'q' nor a key of the command dictionary.
UnknownTokens == {<<"x">>, <<"1","0">>, <<"Q">>}

\* A line with leading, trailing, repeated and tab whitespace.
PaddedLine == <<" ","7","\t","c","d"," "," ","d","o","c","k"," ">>

\* A line whose tokens are separated by a form feed, a carriage return and a
\* vertical tab, and that ends with a file separator.
FeedLine == <<"7","\f","c","d","\r","","d","o","c","k","">>

\* Lines with no token at all.
BlankLines == {<<>>, <<" ">>, <<" ","\t">>, <<"\r">>, <<""," ">>}

Lines ==
    {JoinSp(<<K7>> \o a) : a \in EdgeArgLists}
    \cup {JoinSp(<<k>> \o a) : k \in (DOMAIN _command_dictionary) \ {K7},
                               a \in OtherArgLists}
    \cup {JoinSp(<<k>> \o a) : k \in UnknownTokens \cup {Kq}, a \in OtherArgLists}
    \cup {PaddedLine, FeedLine} \cup BlankLines

\* ---------------------------------------------------------------- run loop

\* run: inputs = input('>') at the top of the loop.
run_input ==
    /\ pc = "prompt"
    /\ \E line \in Lines : inputs' = line
    /\ pc' = "dispatch"
    /\ invoked' = <<>>
    /\ calls' = <<>>
    /\ printed' = <<>>
    /\ sleeps' = 0
    /\ written' = <<>>
    /\ first_iter' = TRUE
    /\ svc_not_ready' = 0
    /\ svc_forever' = FALSE
    /\ svc_final' = "ok"
    /\ sub_inputs' = <<>>
    /\ handler_exc' = ""
    /\ UNCHANGED <<cache, _download_filepath, g_image_clicks, capt_graph>>
    /\ UNCHANGED power

\* run: req_type = str.split(inputs)[0] on a line without a token raises
\* IndexError outside the try, so it leaves run.
run_index_error ==
    /\ pc = "dispatch"
    /\ str_split(inputs) = <<>>
    /\ pc' = "raised"
    /\ UNCHANGED <<inputs, invoked, log, cache, _download_filepath, first_iter,
                   svc, capt, handler_exc>>
    /\ UNCHANGED power

req_type == str_split(inputs)[1]

args == Tail(str_split(inputs))

\* run_quit taking 'Q' for 'q' as well.
run_quit_any_case ==
    /\ pc = "dispatch"
    /\ str_split(inputs) # <<>>
    /\ req_type \in {Kq, <<"Q">>}
    /\ pc' = "returned"
    /\ UNCHANGED <<inputs, invoked, log, cache, _download_filepath, first_iter,
                   svc, capt, handler_exc>>
    /\ UNCHANGED power

\* run: if req_type == 'q': break
run_quit ==
    /\ pc = "dispatch"
    /\ str_split(inputs) # <<>>
    /\ req_type = Kq
    /\ pc' = "returned"
    /\ UNCHANGED <<inputs, invoked, log, cache, _download_filepath, first_iter,
                   svc, capt, handler_exc>>
    /\ UNCHANGED power

\* run_unknown without its continue: the lookup in the try raises KeyError,
\* which is printed as well.
run_unknown_falls_through ==
    /\ pc = "dispatch"
    /\ str_split(inputs) # <<>>
    /\ req_type # Kq
    /\ req_type \notin DOMAIN _command_dictionary
    /\ printed' = printed \o
          <<Msg("Request not in the known command dictionary.", <<>>),
            Msg("print(e)", <<"KeyError">>)>>
    /\ pc' = "prompt"
    /\ UNCHANGED <<inputs, invoked, calls, sleeps, written, cache,
                   _download_filepath, first_iter, svc, capt, handler_exc>>
    /\ UNCHANGED power

\* run: if req_type not in self._command_dictionary: print; continue
run_unknown ==
    /\ pc = "dispatch"
    /\ str_split(inputs) # <<>>
    /\ req_type # Kq
    /\ req_type \notin DOMAIN _command_dictionary
    /\ printed' = Append(printed, Msg("Request not in the known command dictionary.", <<>>))
    /\ pc' = "prompt"
    /\ UNCHANGED <<inputs, invoked, calls, sleeps, written, cache,
                   _download_filepath, first_iter, svc, capt, handler_exc>>
    /\ UNCHANGED power

\* run: cmd_func = self._command_dictionary[req_type] is handler h.
Dispatches(h) ==
    /\ pc = "dispatch"
    /\ str_split(inputs) # <<>>
    /\ req_type # Kq
    /\ req_type \in DOMAIN _command_dictionary
    /\ _command_dictionary[req_type] = h

\* run_after without the except clause: an exception leaves run.
run_after_uncaught(c) == IF c.exc # "" THEN "raised" ELSE "prompt"

\* run: where the loop goes after cmd_func returned or raised with state c:
\* except Exception catches what the handler raised, and the loop goes on.
run_after(c) == "prompt"

\* run: what is on the terminal after cmd_func returned or raised: print(e).
run_printed(c) ==
    IF c.exc # "" THEN Append(c.printed, Msg("print(e)", <<c.exc>>)) ELSE c.printed

\* run: try: cmd_func(...) except Exception as e: print(e), for a handler
\* that ran to its end (or to its exception) leaving c; then the loop goes on.
Leave(c) ==
    /\ calls' = calls \o c.calls
    /\ printed' = printed \o run_printed(c)
    /\ written' = written \o c.written
    /\ _current_graph' = c.graph
    /\ _current_edges' = c.edges
    /\ _current_annotation_name_to_wp_id' = c.names
    /\ handler_exc' = c.exc
    /\ pc' = run_after(c)

\* run: cmd_func(str.split(inputs)[1:]) calls handler h.
Enter(h) == invoked' = Append(invoked, [handler |-> h, args |-> args])

\* A handler that runs from its call to its end in one step.
Finish(h, c) ==
    /\ Enter(h)
    /\ Leave(c)
    /\ UNCHANGED <<inputs, sleeps, _download_filepath, first_iter, svc, capt>>

\* ---------------------------------------------------------- simple handlers

\* A remote call whose response carries a status: OK, another status, or an
\* exception instead of a response.
StatusOutcomes == {"ok", "not_ok", "raise"}

\* _clear_map: the response of clear_graph is returned to run, which drops it.
_clear_map_do(c, out) ==
    LET c1 == CallRet(c, "clear_graph", <<>>, out) IN
    IF out = "raise" THEN Raise(c1, "RpcError") ELSE c1

_clear_map ==
    /\ Dispatches("_clear_map")
    /\ \E out \in StatusOutcomes : Finish("_clear_map", _clear_map_do(Ctx0, out))
    /\ UNCHANGED power

_get_recording_status_do(c, out) ==
    LET c1 == Call(c, "get_record_status", <<>>) IN
    IF out = "raise" THEN Raise(c1, "RpcError")
    ELSE IF out = "on" THEN Say(c1, "The recording service is on.", <<>>)
    ELSE Say(c1, "The recording service is off.", <<>>)

_get_recording_status ==
    /\ Dispatches("_get_recording_status")
    /\ \E out \in {"on", "off", "raise"} :
          Finish("_get_recording_status", _get_recording_status_do(Ctx0, out))
    /\ UNCHANGED power

_create_default_waypoint_do(c, out) ==
    LET c1 == Call(c, "create_waypoint", S_default) IN
    IF out = "raise" THEN Raise(c1, "RpcError")
    ELSE IF out = "ok" THEN Say(c1, "Successfully created a waypoint.", <<>>)
    ELSE Say(c1, "Could not create a waypoint.", <<>>)

_create_default_waypoint ==
    /\ Dispatches("_create_default_waypoint")
    /\ \E out \in {"ok", "not_ok", "raise"} :
          Finish("_create_default_waypoint", _create_default_waypoint_do(Ctx0, out))
    /\ UNCHANGED power

_optimize_anchoring_do(c, out) ==
    LET c1 == CallRet(c, "process_anchoring", <<>>, out) IN
    IF out = "raise" THEN Raise(c1, "RpcError")
    ELSE IF out = "ok" THEN Say(c1, "Optimized anchoring after {} iteration(s).", <<>>)
    ELSE Say(c1, "Error optimizing {}", <<>>)

\* _optimize_anchoring asking at a prompt of its own before it does anything.
_optimize_anchoring_asking ==
    /\ Dispatches("_optimize_anchoring")
    /\ invoked' = Append(invoked, [handler |-> "_optimize_anchoring", args |-> args])
    /\ pc' = "auto_close_loops_prompt"
    /\ UNCHANGED <<inputs, log, cache, _download_filepath, first_iter, svc, capt,
                   handler_exc>>
    /\ UNCHANGED power

_optimize_anchoring ==
    /\ Dispatches("_optimize_anchoring")
    /\ \E out \in StatusOutcomes :
          Finish("_optimize_anchoring", _optimize_anchoring_do(Ctx0, out))
    /\ UNCHANGED power

\* --------------------------------------------------------- start recording

\* should_we_start_recording without its test of the localization.
should_we_start_recording_always(c, dl, loc) ==
    LET c1 == CallRet(c, "download_graph", <<>>, dl) IN
    IF Raised(dl) THEN [c |-> Raise(c1, "RpcError"), ret |-> FALSE]
    ELSE IF dl # NoGraph /\ Len(dl.waypoints) > 0
    THEN LET c2 == CallRet(c1, "get_localization_state", <<>>, loc) IN
         IF loc = "raise" THEN [c |-> Raise(c2, "RpcError"), ret |-> FALSE]
         ELSE [c |-> c2, ret |-> TRUE]
    ELSE [c |-> c1, ret |-> TRUE]

\* should_we_start_recording: the calls it makes and what it returns
\* (exc set when a call raised).  loc is what get_localization_state answers.
should_we_start_recording(c, dl, loc) ==
    LET c1 == CallRet(c, "download_graph", <<>>, dl) IN
    IF Raised(dl) THEN [c |-> Raise(c1, "RpcError"), ret |-> FALSE]
    ELSE IF dl # NoGraph /\ Len(dl.waypoints) > 0
    THEN LET c2 == CallRet(c1, "get_localization_state", <<>>, loc) IN
         IF loc = "raise" THEN [c |-> Raise(c2, "RpcError"), ret |-> FALSE]
         ELSE IF loc = "not_localized" THEN [c |-> c2, ret |-> FALSE]
         ELSE [c |-> c2, ret |-> TRUE]
    ELSE [c |-> c1, ret |-> TRUE]

_start_recording_do(c, dl, loc, out) ==
    LET r == should_we_start_recording(c, dl, loc) IN
    IF r.c.exc # "" THEN r.c
    ELSE IF ~r.ret
    THEN Say(r.c, "The system is not in the proper state to start recording.", <<>>)
    ELSE LET c1 == CallRet(r.c, "start_recording", <<>>, out) IN
         IF out = "raise" THEN Say(c1, "Start recording failed: ", <<"RpcError">>)
         ELSE Say(c1, "Successfully started recording a map.", <<>>)

_start_recording ==
    /\ Dispatches("_start_recording")
    /\ \E dl \in DownloadOutcomes, loc \in {"localized", "not_localized", "raise"},
          out \in RpcOutcomes :
          Finish("_start_recording", _start_recording_do(Ctx0, dl, loc, out))
    /\ UNCHANGED power

\* ---------------------------------------------------------- stop recording

\* The log keeps at most this many entries of a retry loop that never ends.
LogCap == MaxNotReady + 2

Capped(n) == IF n < LogCap THEN n + 1 ELSE n

CappedAppend(q, x) == IF Len(q) < LogCap THEN Append(q, x) ELSE q

\* run calls _stop_recording: first_iter = True, and the loop is entered.  The
\* service's script (how often it is not ready, and what it answers then) is
\* the environment's choice.
_stop_recording ==
    /\ Dispatches("_stop_recording")
    /\ Enter("_stop_recording")
    /\ first_iter' = TRUE
    /\ \E n \in 0..MaxNotReady, forever \in BOOLEAN, final \in {"ok", "error"} :
          /\ svc_not_ready' = (IF forever THEN 0 ELSE n)
          /\ svc_forever' = forever
          /\ svc_final' = (IF forever THEN "ok" ELSE final)
    /\ pc' = "stop_recording"
    /\ UNCHANGED <<inputs, log, cache, _download_filepath, capt, handler_exc>>
    /\ UNCHANGED power

\* What the stop_recording call of this iteration answers.
stop_recording_answer ==
    IF svc_forever \/ Len(calls) < svc_not_ready
    THEN "NotReadyYetError"
    ELSE svc_final

\* stop_retries taking every failure for a transient one.
stop_retries_on_any_error(answer) == answer # "ok"

\* stop_retries giving up after two attempts.
stop_retries_bounded(answer) == answer = "NotReadyYetError" /\ Len(calls) < 2

\* _stop_recording: whether the loop goes round again after an answer.
stop_retries(answer) == answer = "NotReadyYetError"

\* One iteration of the while True loop of _stop_recording.
stop_recording_iteration ==
    /\ pc = "stop_recording"
    /\ calls' = CappedAppend(calls, Rpc("stop_recording", <<>>))
    /\ IF stop_retries(stop_recording_answer)
       THEN /\ printed' = (IF first_iter
                           THEN Append(printed, Msg("Cleaning up recording...", <<>>))
                           ELSE printed)
            /\ first_iter' = FALSE
            /\ sleeps' = Capped(sleeps)
            /\ pc' = "stop_recording"
       ELSE /\ printed' = Append(printed,
                 IF stop_recording_answer = "ok"
                 THEN Msg("Successfully stopped recording a map.", <<>>)
                 ELSE Msg("Stop recording failed: ", <<"RpcError">>))
            /\ UNCHANGED <<first_iter, sleeps>>
            /\ pc' = "prompt"
    /\ UNCHANGED <<inputs, invoked, written, cache, _download_filepath, svc, capt,
                   handler_exc>>
    /\ UNCHANGED power

\* ------------------------------------------------------------ graph cache

\* _update_graph_waypoint_and_edge_ids: dl is what download_graph answers,
\* loc what get_localization_state does.
_update_graph_waypoint_and_edge_ids(c, dl, loc, do_print) ==
    LET c1 == CallRet(c, "download_graph", <<>>, dl) IN
    IF Raised(dl) THEN Raise(c1, "RpcError")
    ELSE IF dl = NoGraph THEN Say(c1, "Empty graph.", <<>>)
    ELSE LET c2 == CallRet([c1 EXCEPT !.graph = dl], "get_localization_state", <<>>, loc) IN
         IF loc = "raise" THEN Raise(c2, "RpcError")
         ELSE LET u == update_waypoints_and_edges(dl)
                  c3 == [c2 EXCEPT !.names = u.names, !.edges = u.edges]
              IN IF do_print THEN Say(c3, "waypoints and edges listed", <<>>) ELSE c3

_list_graph_waypoint_and_edge_ids ==
    /\ Dispatches("_list_graph_waypoint_and_edge_ids")
    /\ \E dl \in DownloadOutcomes, loc \in RpcOutcomes :
          Finish("_list_graph_waypoint_and_edge_ids",
                 _update_graph_waypoint_and_edge_ids(Ctx0, dl, loc, TRUE))
    /\ UNCHANGED power

\* _get_waypoint raising KeyError for an id the graph does not hold.
_get_waypoint_raises(c, id, dl) ==
    IF c.graph = NoGraph THEN [c |-> Raise(c, "AttributeError"), wp |-> <<>>]
    ELSE IF \E n \in 1..Len(c.graph.waypoints) : c.graph.waypoints[n].id = id
    THEN [c |-> c,
          wp |-> <<c.graph.waypoints[CHOOSE n \in 1..Len(c.graph.waypoints) :
                                       c.graph.waypoints[n].id = id]>>]
    ELSE [c |-> Raise(c, "KeyError"), wp |-> <<>>]

RECURSIVE FindWaypoint(_, _)
FindWaypoint(wps, id) ==
    IF wps = <<>> THEN <<>>
    ELSE IF Head(wps).id = id THEN <<Head(wps)>>
    ELSE FindWaypoint(Tail(wps), id)

\* _get_waypoint: wp is <<the waypoint>>, or <<>> for None.  dl is what
\* download_graph answers if the cached graph is None.
_get_waypoint(c, id, dl) ==
    LET c1 == IF c.graph = NoGraph
              THEN (IF Raised(dl)
                    THEN Raise(CallRet(c, "download_graph", <<>>, dl), "RpcError")
                    ELSE [CallRet(c, "download_graph", <<>>, dl) EXCEPT !.graph = dl])
              ELSE c
    IN  IF c1.exc # "" THEN [c |-> c1, wp |-> <<>>]
        ELSE IF c1.graph = NoGraph
        THEN [c |-> Raise(c1, "AttributeError"), wp |-> <<>>]
        ELSE LET found == FindWaypoint(c1.graph.waypoints, id) IN
             IF found # <<>> THEN [c |-> c1, wp |-> found]
             ELSE [c |-> Say(c1, "ERROR: Waypoint {} not found in graph.", id),
                   wp |-> <<>>]

\* What a create-edge run meets: the first download_graph answer, the
\* get_localization_state outcome, the download_graph answer inside
\* _get_waypoint, and the create_edge outcome.
EdgeEnvs ==
    [dl : DownloadOutcomes, loc : RpcOutcomes, dl2 : DownloadOutcomes,
     ce : RpcOutcomes]

\* The message find_unique_waypoint_id prints, if any.
find_unique_says(c, ref) ==
    IF c.graph = NoGraph
    THEN Say(c, "Please list the waypoints in the map", <<>>)
    ELSE IF Len(ref) # 2 /\ ref \in DOMAIN c.names /\ c.names[ref] = None
    THEN Say(c, "The waypoint name is used for multiple different unique waypoints.", ref)
    ELSE c

\* wrong_arg_count refusing only too few references.
wrong_arg_count_too_few(args0) == Len(args0) < 2

\* _create_new_edge: if len(args[0]) != 2
wrong_arg_count(args0) == Len(args0) # 2

\* _create_new_edge(args0): args0 is the list the handler is called with.
_create_new_edge_do(c, args0, e) ==
    IF wrong_arg_count(args0)
    THEN Say(c, "ERROR: Specify the two waypoints to connect (short code or annotation).", <<>>)
    ELSE
    LET c1 == _update_graph_waypoint_and_edge_ids(c, e.dl, e.loc, FALSE) IN
    IF c1.exc # "" THEN c1
    ELSE
    LET from_id == find_unique_waypoint_id(args0[1], c1.graph, c1.names)
        to_id == find_unique_waypoint_id(args0[2], c1.graph, c1.names)
        c2 == find_unique_says(find_unique_says(c1, args0[1]), args0[2])
        c3 == Say(c2, "Creating edge from {} to {}.", from_id \o <<" ">> \o to_id)
        r1 == _get_waypoint(c3, from_id, e.dl2)
    IN  IF r1.c.exc # "" \/ r1.wp = <<>> THEN r1.c
        ELSE
        LET r2 == _get_waypoint(r1.c, to_id, e.dl2) IN
        IF r2.c.exc # "" \/ r2.wp = <<>> THEN r2.c
        ELSE
        LET c4 == Say(r2.c, "edge transform =", <<>>)
            c5 == Call(c4, "create_edge", <<from_id, to_id>>)
        IN  IF e.ce = "raise" THEN Raise(c5, "RpcError") ELSE c5

_create_new_edge ==
    /\ Dispatches("_create_new_edge")
    /\ \E e \in EdgeEnvs : Finish("_create_new_edge", _create_new_edge_do(Ctx0, args, e))
    /\ UNCHANGED power

\* self._add_message(...): RecordingInterface defines no _add_message, so
\* looking the attribute up raises AttributeError.
_add_message(c, m) == Raise(c, "AttributeError")

\* _create_loop taking the last and the first waypoint as the graph lists
\* them, unsorted.
_create_loop_do_unsorted(c, e1, e2) ==
    LET c1 == _update_graph_waypoint_and_edge_ids(c, e1.dl, e1.loc, FALSE) IN
    IF c1.exc # "" THEN c1
    ELSE IF c1.graph = NoGraph THEN Raise(c1, "AttributeError")
    ELSE IF Len(c1.graph.waypoints) < 2
    THEN _add_message(c1, "Graph contains {} waypoints -- at least two are needed to create loop.")
    ELSE LET edge_waypoints == <<c1.graph.waypoints[Len(c1.graph.waypoints)].id,
                                 c1.graph.waypoints[1].id>>
         IN  _create_new_edge_do(c1, edge_waypoints, e2)

\* _create_loop: e1 is what its own refresh meets, e2 what the nested
\* _create_new_edge meets.
_create_loop_do(c, e1, e2) ==
    LET c1 == _update_graph_waypoint_and_edge_ids(c, e1.dl, e1.loc, FALSE) IN
    IF c1.exc # "" THEN c1
    ELSE IF c1.graph = NoGraph THEN Raise(c1, "AttributeError")
    ELSE IF Len(c1.graph.waypoints) < 2
    THEN _add_message(c1, "Graph contains {} waypoints -- at least two are needed to create loop.")
    ELSE LET sorted_waypoints == sort_waypoints_chrono(c1.graph)
             edge_waypoints == <<sorted_waypoints[Len(sorted_waypoints)].id,
                                 sorted_waypoints[1].id>>
         IN  _create_new_edge_do(c1, edge_waypoints, e2)

_create_loop ==
    /\ Dispatches("_create_loop")
    /\ \E e1 \in EdgeEnvs, e2 \in EdgeEnvs :
          /\ e1.dl2 = NoGraph
          /\ e1.ce = "ok"
          /\ Finish("_create_loop", _create_loop_do(Ctx0, e1, e2))
    /\ UNCHANGED power

\* ----------------------------------------------------------- download graph

S_graph == <<"/","g","r","a","p","h">>
S_waypoint_snapshots ==
    <<"/","w","a","y","p","o","i","n","t","_","s","n","a","p","s","h","o","t","s">>
S_edge_snapshots ==
    <<"/","e","d","g","e","_","s","n","a","p","s","h","o","t","s">>

\* The snapshot ids of the graphs above.
SnapshotIds == {Snap_s1, Snap_s2, Snap_e1}

\* The contents the service can hold for a snapshot.
Blobs == {"blob1", "blob2"}

\* What the service holds: the contents of every snapshot, by snapshot id.
Holdings == [SnapshotIds -> Blobs]

\* x.SerializeToString(): the bytes of a message, here the message under a tag.
SerializeToString(x) == [bytes_of |-> x]

\* _write_bytes opening the directory path instead of the file in it.
_write_bytes_flat(c, filepath, filename, data) ==
    [c EXCEPT !.written = Append(@, [file |-> filepath, data |-> data])]

\* _write_bytes(filepath, filename, data)
_write_bytes(c, filepath, filename, data) ==
    [c EXCEPT !.written = Append(@, [file |-> filepath \o filename, data |-> data])]

\* _write_full_graph
_write_full_graph(c, graph) ==
    _write_bytes(c, _download_filepath, S_graph, SerializeToString(graph))

\* _download_and_write_waypoint_snapshots leaving its loop at the first
\* download that raises.
RECURSIVE _download_and_write_waypoint_snapshots_stops(_, _, _, _)
_download_and_write_waypoint_snapshots_stops(c, waypoints, fail, held) ==
    IF waypoints = <<>> THEN c
    ELSE
    LET waypoint == Head(waypoints)
        id == waypoint.snapshot_id
        snapshot == [snapshot_id |-> id, contents |-> held[id]]
    IN  IF Len(id) = 0
        THEN _download_and_write_waypoint_snapshots_stops(c, Tail(waypoints), fail, held)
        ELSE IF id \in fail
        THEN Say(CallRet(c, "download_waypoint_snapshot", id, [raised |-> TRUE]),
                 "Failed to download waypoint snapshot: ", id)
        ELSE _download_and_write_waypoint_snapshots_stops(
                 Say(_write_bytes(CallRet(c, "download_waypoint_snapshot", id, snapshot),
                                  _download_filepath \o S_waypoint_snapshots,
                                  S_slash \o id, SerializeToString(snapshot)),
                     "Downloaded {} of the total {} waypoint snapshots.", id),
                 Tail(waypoints), fail, held)

\* _download_and_write_waypoint_snapshots: fail is the set of snapshot ids
\* whose download raises, held the contents the service holds for each snapshot id.
RECURSIVE _download_and_write_waypoint_snapshots(_, _, _, _)
_download_and_write_waypoint_snapshots(c, waypoints, fail, held) ==
    IF waypoints = <<>> THEN c
    ELSE
    LET waypoint == Head(waypoints)
        rest == Tail(waypoints)
        id == waypoint.snapshot_id
        snapshot == [snapshot_id |-> id, contents |-> held[id]]
    IN  IF Len(id) = 0
        THEN _download_and_write_waypoint_snapshots(c, rest, fail, held)
        ELSE IF id \in fail
        THEN _download_and_write_waypoint_snapshots(
                 Say(CallRet(c, "download_waypoint_snapshot", id, [raised |-> TRUE]),
                     "Failed to download waypoint snapshot: ", id),
                 rest, fail, held)
        ELSE _download_and_write_waypoint_snapshots(
                 Say(_write_bytes(CallRet(c, "download_waypoint_snapshot", id, snapshot),
                                  _download_filepath \o S_waypoint_snapshots,
                                  S_slash \o id, SerializeToString(snapshot)),
                     "Downloaded {} of the total {} waypoint snapshots.", id),
                 rest, fail, held)

RECURSIVE _download_and_write_edge_snapshots(_, _, _, _)
_download_and_write_edge_snapshots(c, edges, fail, held) ==
    IF edges = <<>> THEN c
    ELSE
    LET edge == Head(edges)
        rest == Tail(edges)
        id == edge.snapshot_id
        snapshot == [snapshot_id |-> id, contents |-> held[id]]
    IN  IF Len(id) = 0
        THEN _download_and_write_edge_snapshots(c, rest, fail, held)
        ELSE IF id \in fail
        THEN _download_and_write_edge_snapshots(
                 Say(CallRet(c, "download_edge_snapshot", id, [raised |-> TRUE]),
                     "Failed to download edge snapshot: ", id),
                 rest, fail, held)
        ELSE _download_and_write_edge_snapshots(
                 Say(_write_bytes(CallRet(c, "download_edge_snapshot", id, snapshot),
                                  _download_filepath \o S_edge_snapshots,
                                  S_slash \o id, SerializeToString(snapshot)),
                     "Downloaded {} of the total {} edge snapshots.", id),
                 rest, fail, held)

\* _download_full_graph without its test for None: SerializeToString of None
\* raises AttributeError.
_download_full_graph_do_unchecked(c, dl, fail, held) ==
    LET c1 == CallRet(c, "download_graph", <<>>, dl) IN
    IF Raised(dl) THEN Raise(c1, "RpcError")
    ELSE IF dl = NoGraph THEN Raise(c1, "AttributeError")
    ELSE LET c2 == Say(_write_full_graph(c1, dl),
                       "Graph downloaded with {} waypoints and {} edges", <<>>)
             c3 == _download_and_write_waypoint_snapshots(c2, dl.waypoints, fail, held)
         IN  _download_and_write_edge_snapshots(c3, dl.edges, fail, held)

\* _download_full_graph keeping the graph it fetched as self._current_graph.
_download_full_graph_do_caching(c, dl, fail, held) ==
    LET c1 == CallRet(c, "download_graph", <<>>, dl) IN
    IF Raised(dl) THEN Raise(c1, "RpcError")
    ELSE IF dl = NoGraph THEN Say(c1, "Failed to download the graph.", <<>>)
    ELSE LET c2 == Say(_write_full_graph([c1 EXCEPT !.graph = dl], dl),
                       "Graph downloaded with {} waypoints and {} edges", <<>>)
             c3 == _download_and_write_waypoint_snapshots(c2, dl.waypoints, fail, held)
         IN  _download_and_write_edge_snapshots(c3, dl.edges, fail, held)

_download_full_graph_do(c, dl, fail, held) ==
    LET c1 == CallRet(c, "download_graph", <<>>, dl) IN
    IF Raised(dl) THEN Raise(c1, "RpcError")
    ELSE IF dl = NoGraph THEN Say(c1, "Failed to download the graph.", <<>>)
    ELSE LET c2 == Say(_write_full_graph(c1, dl),
                       "Graph downloaded with {} waypoints and {} edges", <<>>)
             c3 == _download_and_write_waypoint_snapshots(c2, dl.waypoints, fail, held)
         IN  _download_and_write_edge_snapshots(c3, dl.edges, fail, held)

_download_full_graph ==
    /\ Dispatches("_download_full_graph")
    /\ \E dl \in DownloadOutcomes, fail \in SUBSET SnapshotIds, held \in Holdings :
          Finish("_download_full_graph", _download_full_graph_do(Ctx0, dl, fail, held))
    /\ UNCHANGED power

\* --------------------------------------------------------- auto-close loops

\* Lines typed at a prompt inside a handler.
SubLines == {<<"0">>, <<"1">>, <<"2">>, <<"q">>, <<"x">>, <<"1"," ","h","o","m","e">>,
             <<>>, <<" ">>}

\* run calls _auto_close_loops_prompt: it prints its options and waits in
\* input('>').
_auto_close_loops_prompt ==
    /\ Dispatches("_auto_close_loops_prompt")
    /\ Enter("_auto_close_loops_prompt")
    /\ printed' = Append(printed, Msg("Options: (0) (1) (2) (q) Back.", <<>>))
    /\ pc' = "auto_close_loops_prompt"
    /\ UNCHANGED <<inputs, calls, sleeps, written, cache, _download_filepath,
                   first_iter, svc, capt, handler_exc>>
    /\ UNCHANGED power

\* _auto_close_loops(close_fiducial_loops, close_odometry_loops): the count of
\* new edges is printed from whatever response came back, its status unread.
_auto_close_loops(c, close_fiducial_loops, close_odometry_loops, out) ==
    LET c1 == CallRet(c, "process_topology",
                      <<IF close_fiducial_loops THEN "True" ELSE "False",
                        IF close_odometry_loops THEN "True" ELSE "False">>, out)
    IN  IF out = "raise" THEN Raise(c1, "RpcError")
        ELSE Say(c1, "Created {} new edge(s).", <<>>)

\* _auto_close_loops_prompt with the meanings of '1' and '2' exchanged.
_auto_close_loops_prompt_do_exchanged(c, line, out) ==
    IF str_split(line) = <<>> THEN Raise(c, "IndexError")
    ELSE LET t == str_split(line)[1] IN
         IF t = K0 THEN _auto_close_loops(c, TRUE, TRUE, out)
         ELSE IF t = K1 THEN _auto_close_loops(c, FALSE, TRUE, out)
         ELSE IF t = K2 THEN _auto_close_loops(c, TRUE, FALSE, out)
         ELSE IF t = Kq THEN c
         ELSE Say(c, "Unrecognized command. Going back.", <<>>)

\* _auto_close_loops_prompt from the line it read on.
_auto_close_loops_prompt_do(c, line, out) ==
    IF str_split(line) = <<>> THEN Raise(c, "IndexError")
    ELSE LET t == str_split(line)[1] IN
         IF t = K0 THEN _auto_close_loops(c, TRUE, TRUE, out)
         ELSE IF t = K1 THEN _auto_close_loops(c, TRUE, FALSE, out)
         ELSE IF t = K2 THEN _auto_close_loops(c, FALSE, TRUE, out)
         ELSE IF t = Kq THEN c
         ELSE Say(c, "Unrecognized command. Going back.", <<>>)

\* Leave(c) after an input() read inside the handler: the log starts again at
\* every input() read.
LeaveFresh(c) ==
    /\ calls' = c.calls
    /\ printed' = run_printed(c)
    /\ written' = c.written
    /\ _current_graph' = c.graph
    /\ _current_edges' = c.edges
    /\ _current_annotation_name_to_wp_id' = c.names
    /\ handler_exc' = c.exc
    /\ pc' = run_after(c)

auto_close_loops_input ==
    /\ pc = "auto_close_loops_prompt"
    /\ \E line \in SubLines, out \in StatusOutcomes :
          /\ sub_inputs' = line
          /\ LeaveFresh(_auto_close_loops_prompt_do(Ctx0, line, out))
    /\ UNCHANGED <<inputs, invoked, sleeps, _download_filepath, first_iter, svc,
                   g_image_clicks, capt_graph>>
    /\ UNCHANGED power

\* ---------------------------------------------------------------- add object

\* Largest number of entries of self.g_image_clicks.
MaxClicks == 2

S_cup == <<"c","u","p">>

\* self._object_cap_dict
_object_cap_dict ==
    (K0 :> "_create_waypoint_and_capt_obj_node") @@ (K1 :> "_capt_object")

\* The menu _add_object prints at the head of its loop, before input('>').
M_capture_menu == "Options for capturing object: (0) (1) (q) Exit."

\* The state a step inside _add_object leaves, the handler still running at
\* position p; back at the head of the loop the menu is printed again.
Stay(c, p) ==
    /\ calls' = c.calls
    /\ printed' = (IF p = "add_object"
                   THEN Append(c.printed, Msg(M_capture_menu, <<>>))
                   ELSE c.printed)
    /\ written' = c.written
    /\ _current_graph' = c.graph
    /\ _current_edges' = c.edges
    /\ _current_annotation_name_to_wp_id' = c.names
    /\ UNCHANGED handler_exc
    /\ pc' = p

\* _add_object: except Exception as e: print(e) around a capture handler,
\* then the menu again.
add_object_caught(c) ==
    IF c.exc # "" THEN Raise(Say(c, "print(e)", <<c.exc>>), "") ELSE c

\* run calls _add_object: it asks for the recording status and enters its
\* menu only if recording is on.
_add_object ==
    /\ Dispatches("_add_object")
    /\ Enter("_add_object")
    /\ \E out \in {"on", "off", "raise"} :
          LET c1 == Call(Ctx0, "get_record_status", <<>>) IN
          IF out = "raise" THEN Leave(Raise(c1, "RpcError"))
          ELSE IF out = "off"
          THEN Leave(Say(c1, "Start recording to capture object.", <<>>))
          ELSE /\ calls' = calls \o c1.calls
               /\ printed' = printed \o
                    <<Msg("Recording. Proceed to capture object node", <<>>),
                      Msg(M_capture_menu, <<>>)>>
               /\ pc' = "add_object"
               /\ UNCHANGED <<written, cache, handler_exc>>
    /\ UNCHANGED <<inputs, sleeps, _download_filepath, first_iter, svc, capt>>
    /\ UNCHANGED power

\* What get_image_from_sources can answer: one image, another number of
\* images, or an exception.
ImageOutcomes == {"one", "none", "raise"}

\* The argument _capt_object is called with: a str (from
\* _create_waypoint_and_capt_obj_node), the list of the remaining tokens (from
\* the menu), or None.
PyStr(x) == [kind |-> "str", val |-> x]
PyList(x) == [kind |-> "list", val |-> x]
PyNone == [kind |-> "None"]

\* _capt_object up to its key loop: graph is its local graph when the loop is
\* reached (exc = "").
_capt_object_begin(c, waypoint_name, dl, img) ==
    IF waypoint_name.kind = "None"
    THEN [c |-> Say(c, "waypoint name not input", <<>>), graph |-> NoGraph, loop |-> FALSE]
    ELSE
    LET c1 == CallRet(c, "download_graph", <<>>, dl) IN
    IF Raised(dl) THEN [c |-> Raise(c1, "RpcError"), graph |-> NoGraph, loop |-> FALSE]
    ELSE IF dl = NoGraph
    THEN [c |-> Raise(c1, "AttributeError"), graph |-> NoGraph, loop |-> FALSE]
    ELSE
    LET c2 == Call(c1, "get_image_from_sources", <<>>) IN
    IF img = "raise" THEN [c |-> Raise(c2, "RpcError"), graph |-> NoGraph, loop |-> FALSE]
    ELSE IF img # "one"
    THEN [c |-> Raise(Say(Say(c2, "Got invalid number of images: ", <<>>),
                          "print(image_responses)", <<>>), "AssertionError"),
          graph |-> NoGraph, loop |-> FALSE]
    ELSE [c |-> c2, graph |-> dl, loop |-> TRUE]

\* A step of _add_object that called _capt_object: into the key loop, or back
\* to the menu with the exception printed.
IntoCapture(r) ==
    IF r.loop
    THEN /\ Stay(r.c, "capture")
         /\ capt_graph' = r.graph
    ELSE /\ Stay(add_object_caught(r.c), "add_object")
         /\ capt_graph' = NoGraph

\* _add_object: one line read at its menu.
add_object_input ==
    /\ pc = "add_object"
    /\ \E line \in SubLines, dl \in DownloadOutcomes, img \in ImageOutcomes :
          /\ sub_inputs' = line
          /\ IF str_split(line) = <<>>
             THEN LeaveFresh(Raise(Ctx0, "IndexError")) /\ UNCHANGED capt_graph
             ELSE
             LET t == str_split(line)[1] IN
             IF t = Kq THEN LeaveFresh(Ctx0) /\ UNCHANGED capt_graph
             ELSE IF t \notin DOMAIN _object_cap_dict
             THEN /\ Stay(Say(Ctx0, "Request not in the known command dictionary.", <<>>),
                          "add_object")
                  /\ UNCHANGED capt_graph
             ELSE IF _object_cap_dict[t] = "_create_waypoint_and_capt_obj_node"
             THEN /\ Stay(Say(Ctx0, "capturing waypoint", <<>>), "waypoint_name")
                  /\ UNCHANGED capt_graph
             ELSE IntoCapture(_capt_object_begin(Ctx0, PyList(Tail(str_split(line))), dl, img))
    /\ UNCHANGED <<inputs, invoked, sleeps, _download_filepath, first_iter, svc,
                   g_image_clicks>>
    /\ UNCHANGED power

\* Names typed at "Enter waypoint name: ".
WaypointNames == {S_dock, S_default, <<>>}

\* _create_custom_waypoint(name)
_create_custom_waypoint(c, name, out) ==
    LET c1 == Call(c, "create_waypoint", name) IN
    IF out = "raise" THEN Raise(c1, "RpcError")
    ELSE IF out = "ok" THEN Say(c1, "Successfully created waypoint- ", name)
    ELSE Say(c1, "Could not create waypoint- ", name)

\* _create_waypoint_and_capt_obj_node after wp_name = input(...).
waypoint_name_input ==
    /\ pc = "waypoint_name"
    /\ \E wp_name \in WaypointNames, out \in {"ok", "not_ok", "raise"},
          dl \in DownloadOutcomes, img \in ImageOutcomes :
          /\ sub_inputs' = wp_name
          /\ LET c1 == _create_custom_waypoint(Ctx0, wp_name, out) IN
             IF c1.exc # ""
             THEN Stay(add_object_caught(c1), "add_object") /\ capt_graph' = NoGraph
             ELSE IntoCapture(_capt_object_begin(c1, PyStr(wp_name), dl, img))
    /\ UNCHANGED <<inputs, invoked, sleeps, _download_filepath, first_iter, svc,
                   g_image_clicks>>
    /\ UNCHANGED power

\* cv_mouse_callback on a left-button release with an object name entered.
cv_mouse_callback ==
    /\ pc = "capture"
    /\ Len(g_image_clicks) < MaxClicks
    /\ g_image_clicks' = Append(g_image_clicks, [coords |-> <<1, 1>>, name |-> S_cup])
    /\ printed' = Append(printed, Msg("added object name", <<>>))
    /\ UNCHANGED <<pc, inputs, invoked, calls, sleeps, written, cache,
                   _download_filepath, first_iter, svc, sub_inputs, capt_graph,
                   handler_exc>>
    /\ UNCHANGED power

\* _capt_object after key 'e': the loop over self.g_image_clicks reads
\* point[0] of a dict keyed 'coords' and 'name', which raises KeyError; with
\* no click the graph is uploaded as it was downloaded.
_capt_object_end(c, graph, clicks, out) ==
    LET c1 == Say(c, "Ending selection.", <<>>) IN
    IF clicks # <<>> THEN Raise(c1, "KeyError")
    ELSE LET c2 == Call(c1, "upload_graph", <<>>) IN
         IF out = "raise" THEN Raise(c2, "RpcError")
         ELSE Say(c2, "Successfully added objects.", <<>>)

LogCtx == [Ctx0 EXCEPT !.calls = calls, !.printed = printed, !.written = written]

capture_key_e ==
    /\ pc = "capture"
    /\ \E out \in RpcOutcomes :
          Stay(add_object_caught(_capt_object_end(LogCtx, capt_graph, g_image_clicks, out)),
               "add_object")
    /\ capt_graph' = NoGraph
    /\ UNCHANGED <<inputs, invoked, sleeps, _download_filepath, first_iter, svc,
                   sub_inputs, g_image_clicks>>
    /\ UNCHANGED power

\* _capt_object on key 'q': exit(0) raises SystemExit, which no
\* except Exception clause catches.
capture_key_q ==
    /\ pc = "capture"
    /\ printed' = Append(printed, Msg("\"q\" pressed, exiting.", <<>>))
    /\ handler_exc' = "SystemExit"
    /\ pc' = "exited"
    /\ UNCHANGED <<inputs, invoked, calls, sleeps, written, cache,
                   _download_filepath, first_iter, svc, capt>>
    /\ UNCHANGED power

\* ------------------------------------------------- tests/cycle_power.py

\* What a power client call can do: return, or raise one of these.
PowerOutcomes == {"ok", "LeaseUseError", "InvalidRequestError", "RpcError"}

\* cycle_power.main up to its first try: the robot is created and
\* authenticated, or an exception leaves main.
cycle_power_main ==
    /\ pc = "main"
    /\ power_pc = "idle"
    /\ \E auth \in RpcOutcomes :
          power_pc' = (IF auth = "raise" THEN "raised" ELSE "power_command")
    /\ UNCHANGED <<recording, power_calls, power_printed>>

\* cycle_power.main: try: power_command(...) except LeaseUseError: print.
power_command ==
    /\ power_pc = "power_command"
    /\ \E out \in PowerOutcomes :
          /\ power_calls' = Append(power_calls, [rpc |-> "power_command", arg |-> <<>>, ret |-> out])
          /\ power_printed' = (IF out = "LeaseUseError"
                               THEN Append(power_printed, Msg("{}", <<out>>))
                               ELSE power_printed)
          /\ power_pc' = (IF out \in {"ok", "LeaseUseError"}
                          THEN "power_command_feedback"
                          ELSE "raised")
    /\ UNCHANGED recording

\* cycle_power.main: try: power_command_feedback(1337) except
\* InvalidRequestError: print; then main ends without a return statement.
power_command_feedback ==
    /\ power_pc = "power_command_feedback"
    /\ \E out \in PowerOutcomes :
          /\ power_calls' = Append(power_calls,
                [rpc |-> "power_command_feedback", arg |-> <<"1337">>, ret |-> out])
          /\ power_printed' = (IF out = "InvalidRequestError"
                               THEN Append(power_printed, Msg("{}", <<out>>))
                               ELSE power_printed)
          /\ power_pc' = (IF out \in {"ok", "InvalidRequestError"}
                          THEN "returned"
                          ELSE "raised")
    /\ UNCHANGED recording

\* What cycle_power.main returns when it ends as `end`: it has no return
\* statement, so None.
cycle_power_returns(end) ==
    IF end = "returned" THEN "None" ELSE "no return"

\* The exit status of cycle_power: if not main(): sys.exit(1), and an
\* exception out of main ends the process with status 1.
cycle_power_exit_status(end) ==
    CASE cycle_power_returns(end) = "True" -> "0"
      [] cycle_power_returns(end) \in {"None", "False"} -> "1"
      [] end = "raised" -> "1"
      [] OTHER -> "running"

Next ==
    \/ cycle_power_main
    \/ power_command
    \/ power_command_feedback
    \/ main_startup
    \/ run_input
    \/ run_index_error
    \/ run_quit
    \/ run_unknown
    \/ _clear_map
    \/ _get_recording_status
    \/ _create_default_waypoint
    \/ _optimize_anchoring
    \/ _start_recording
    \/ _stop_recording
    \/ stop_recording_iteration
    \/ _list_graph_waypoint_and_edge_ids
    \/ _create_new_edge
    \/ _create_loop
    \/ _download_full_graph
    \/ _auto_close_loops_prompt
    \/ auto_close_loops_input
    \/ _add_object
    \/ add_object_input
    \/ waypoint_name_input
    \/ cv_mouse_callback
    \/ capture_key_e
    \/ capture_key_q

Spec == Init /\ [][Next]_vars

\* The control thread keeps running the retry loop: time.sleep returns and
\* the loop body runs again.
FairSpec == Spec /\ WF_vars(stop_recording_iteration)

\* ---------------------------------------------------------- claim helpers

KnownCodes == {K0, K1, K2, K3, K4, K5, K6, K7, K8, K9, Ka, Ko}

\* The handler the menu of run names for each code.
MenuHandler(code) ==
    CASE code = K0 -> "_clear_map"
      [] code = K1 -> "_start_recording"
      [] code = K2 -> "_stop_recording"
      [] code = K3 -> "_get_recording_status"
      [] code = K4 -> "_create_default_waypoint"
      [] code = K5 -> "_download_full_graph"
      [] code = K6 -> "_list_graph_waypoint_and_edge_ids"
      [] code = K7 -> "_create_new_edge"
      [] code = K8 -> "_create_loop"
      [] code = K9 -> "_auto_close_loops_prompt"
      [] code = Ka -> "_optimize_anchoring"
      [] code = Ko -> "_add_object"

ArgListsOf(code) == IF code = K7 THEN EdgeArgLists ELSE OtherArgLists

HasMsg(m) == \E i \in 1..Len(printed) : printed[i].msg = m
CountMsg(m) == Cardinality({i \in 1..Len(printed) : printed[i].msg = m})
LastMsg == printed[Len(printed)]
HasCall(r) == \E i \in 1..Len(calls) : calls[i].rpc = r
CountCalls(r) == Cardinality({i \in 1..Len(calls) : calls[i].rpc = r})
TopHandler == IF invoked = <<>> THEN "" ELSE invoked[1].handler

M_unknown == "Request not in the known command dictionary."
M_not_found == "ERROR: Waypoint {} not found in graph."
M_two_needed ==
    "Graph contains {} waypoints -- at least two are needed to create loop."
M_specify ==
    "ERROR: Specify the two waypoints to connect (short code or annotation)."

\* The exceptions of the model that are instances of Exception.
ExceptionClasses ==
    {"RpcError", "AttributeError", "IndexError", "KeyError", "AssertionError"}

Terminal == {"returned", "raised", "exited"}

\* ------------------------------------------------------------------ claims

\* C1: once run has dispatched a line made of a known command code and
\* argument tokens, exactly one top-level handler has been invoked for it:
\* the one the menu names for the code, with the argument tokens as its
\* argument.
C1_DispatchOnce ==
    /\ \A k \in KnownCodes : \A a \in ArgListsOf(k) :
          (pc # "dispatch" /\ inputs = JoinSp(<<k>> \o a))
             => invoked = <<[handler |-> MenuHandler(k), args |-> a]>>
    /\ (pc # "dispatch" /\ inputs = PaddedLine)
          => invoked = <<[handler |-> "_create_new_edge", args |-> <<S_cd, S_dock>>]>>

C1_Witness ==
    /\ pc = "prompt"
    /\ inputs = PaddedLine
    /\ invoked = <<[handler |-> "_create_new_edge", args |-> <<S_cd, S_dock>>]>>
    /\ HasCall("create_edge")

\* C2: a line whose first token is neither 'q' nor a known code makes run
\* print the error message and nothing else, invoke no handler, issue no
\* remote call, write nothing, leave the cache and the download path as they
\* were, and go back to the prompt.
C2_UnknownCommand ==
    [][(pc = "dispatch" /\ str_split(inputs) # <<>>
         /\ str_split(inputs)[1] # Kq /\ str_split(inputs)[1] \notin KnownCodes)
       => (/\ pc' = "prompt"
           /\ printed' = <<Msg(M_unknown, <<>>)>>
           /\ invoked' = <<>>
           /\ calls' = <<>>
           /\ written' = <<>>
           /\ cache' = cache
           /\ _download_filepath' = _download_filepath
           /\ inputs' = inputs)]_vars

C2_Witness ==
    /\ pc = "prompt"
    /\ inputs = <<"1","0"," ","x">>
    /\ printed = <<Msg(M_unknown, <<>>)>>
    /\ invoked = <<>>
    /\ _current_graph = GThree

\* C3: when a handler called from run raised an instance of Exception, run is
\* back at its prompt and the last thing printed is that exception.
C3_HandlerExceptionCaught ==
    handler_exc \in ExceptionClasses
       => (/\ pc = "prompt"
           /\ printed # <<>>
           /\ LastMsg = Msg("print(e)", <<handler_exc>>))

C3_Witness ==
    /\ handler_exc = "RpcError"
    /\ TopHandler = "_create_new_edge"
    /\ HasCall("create_edge")
    /\ pc = "prompt"

\* C4 as stated: the session has ended only by 'q' at the top-level prompt or
\* by an exception that left run; no handler ends the process.
C4_OnlyQuitOrException ==
    pc \in Terminal
       => \/ (pc = "returned" /\ str_split(inputs) # <<>> /\ str_split(inputs)[1] = Kq)
          \/ pc = "raised"

\* C4 amended: the session has ended by 'q' at the top-level prompt, by the
\* IndexError of a line without a token, or by exit(0) in the key loop of
\* _capt_object under the add-object command; nothing else ends it.
C4_EndsOfSession ==
    /\ pc = "returned"
          => (str_split(inputs) # <<>> /\ str_split(inputs)[1] = Kq /\ invoked = <<>>)
    /\ pc = "raised" => (str_split(inputs) = <<>> /\ invoked = <<>>)
    /\ pc = "exited"
          => (/\ TopHandler = "_add_object"
              /\ handler_exc = "SystemExit"
              /\ LastMsg.msg = "\"q\" pressed, exiting.")
    /\ handler_exc \in ExceptionClasses => pc \notin Terminal

C4_Witness ==
    /\ pc = "exited"
    /\ TopHandler = "_add_object"
    /\ str_split(inputs)[1] = Ko

\* C5: against a service that answers stop_recording with NotReadyYetError N
\* times and then with success or another error, _stop_recording has made at
\* most N calls while it loops, each followed by one sleep, and exactly N+1
\* calls and N sleeps when it has returned, the last message telling how the
\* last call ended.
C5_StopRetries ==
    (TopHandler = "_stop_recording" /\ ~svc_forever)
       => /\ \A i \in 1..Len(calls) : calls[i].rpc = "stop_recording"
          /\ pc = "stop_recording"
                => (Len(calls) <= svc_not_ready /\ sleeps = Len(calls))
          /\ pc = "prompt"
                => (/\ Len(calls) = svc_not_ready + 1
                    /\ sleeps = svc_not_ready
                    /\ LastMsg.msg = (IF svc_final = "ok"
                                      THEN "Successfully stopped recording a map."
                                      ELSE "Stop recording failed: ")
                    /\ CountMsg("Cleaning up recording...")
                          = (IF svc_not_ready > 0 THEN 1 ELSE 0))
          /\ pc \in {"stop_recording", "prompt"}

C5_Witness ==
    /\ pc = "prompt"
    /\ TopHandler = "_stop_recording"
    /\ svc_not_ready = MaxNotReady
    /\ svc_final = "ok"
    /\ Len(calls) = MaxNotReady + 1
    /\ sleeps = MaxNotReady

\* C6: _stop_recording never leaves its loop on a NotReadyYetError answer,
\* however many it has had, so against a service that is never ready it never
\* returns and run reads no other line; against a service that is ready after
\* finitely many answers it does return to the prompt.
C6_UnboundedRetry ==
    /\ [][(pc = "stop_recording" /\ (svc_forever \/ Len(calls) < svc_not_ready))
            => (pc' = "stop_recording" /\ inputs' = inputs)]_vars
    /\ ((pc = "stop_recording" /\ ~svc_forever) ~> (pc = "prompt"))

C6_Witness ==
    /\ pc = "stop_recording"
    /\ svc_forever
    /\ Len(calls) = LogCap
    /\ sleeps = LogCap

WaypointIds(g) == {g.waypoints[n].id : n \in 1..Len(g.waypoints)}

\* The answer of the last download_graph call before call i.
LatestDownload(i) ==
    LET js == {j \in 1..(i - 1) : calls[j].rpc = "download_graph"} IN
    IF js = {} THEN NoGraph
    ELSE calls[CHOOSE j \in js : \A k \in js : k <= j].ret

\* C7: every create_edge request names two waypoint ids of the graph that the
\* most recent download_graph call returned.
C7_EdgeAgainstLatestGraph ==
    \A i \in 1..Len(calls) :
       calls[i].rpc = "create_edge"
          => (/\ LatestDownload(i) \in Graphs
              /\ calls[i].arg[1] \in WaypointIds(LatestDownload(i))
              /\ calls[i].arg[2] \in WaypointIds(LatestDownload(i)))

\* C8: when create-loop ran, its download answered a graph with fewer than two
\* waypoints and no remote call failed, the message that at least two
\* waypoints are needed has been printed and no create_edge request issued.
C8_CreateLoopRefuses ==
    (/\ pc = "prompt"
     /\ TopHandler = "_create_loop"
     /\ handler_exc # "RpcError"
     /\ calls # <<>>
     /\ calls[1].rpc = "download_graph"
     /\ calls[1].ret \in Graphs
     /\ Len(calls[1].ret.waypoints) < 2)
       => (HasMsg(M_two_needed) /\ ~HasCall("create_edge"))

\* C9: create-edge called with a number of references other than two has
\* printed its error and nothing else, made no remote call (no download, no
\* create_edge), raised nothing, and run is back at its prompt.
C9_CreateEdgeArgCount ==
    (TopHandler = "_create_new_edge" /\ Len(invoked[1].args) # 2)
       => (/\ pc = "prompt"
           /\ printed = <<Msg(M_specify, <<>>)>>
           /\ calls = <<>>
           /\ handler_exc = "")

C9_Witness ==
    /\ TopHandler = "_create_new_edge"
    /\ Len(invoked[1].args) = MaxArgs
    /\ printed = <<Msg(M_specify, <<>>)>>
    /\ _current_graph = GThree

\* A reference that is no id, no annotation name and no short code of a
\* waypoint of graph g.
MatchesNothing(ref, g) ==
    \A n \in 1..Len(g.waypoints) :
       /\ g.waypoints[n].id # ref
       /\ g.waypoints[n].name # ref
       /\ id_to_short_code(g.waypoints[n].id) # ref

\* C10: when create-edge resolved its two references against a graph and one
\* of them matches no waypoint of it, the waypoint lookup has printed its
\* not-found error once, as the last message, the handler has raised
\* nothing, the graph was downloaded once, and no create_edge was issued.
C10_UnresolvedReference ==
    (/\ TopHandler = "_create_new_edge"
     /\ HasMsg("Creating edge from {} to {}.")
     /\ ~HasMsg("Please list the waypoints in the map")
     /\ \E n \in 1..2 : MatchesNothing(invoked[1].args[n], _current_graph))
       => (/\ pc = "prompt"
           /\ LastMsg.msg = M_not_found
           /\ CountMsg(M_not_found) = 1
           /\ handler_exc = ""
           /\ CountCalls("download_graph") = 1
           /\ ~HasCall("create_edge"))

C10_Witness ==
    /\ pc = "prompt"
    /\ inputs = JoinSp(<<K7, S_cd, S_nope>>)
    /\ _current_graph = GThree
    /\ LastMsg = Msg(M_not_found, S_nope)
    /\ handler_exc = ""

\* ------------------------------------------------------- claims C11 to C20

\* The directory <download path>/downloaded_graph/waypoint_snapshots for the
\* download path /m.
WaypointSnapshotDir == <<"/","m","/">> \o S_downloaded_graph \o S_waypoint_snapshots

EdgeSnapshotDir == <<"/","m","/">> \o S_downloaded_graph \o S_edge_snapshots

IsUnder(file, dir) == Len(file) > Len(dir) /\ SubSeq(file, 1, Len(dir)) = dir

\* The indices of the files written under dir since the last input() read.
WritesUnder(dir) == {i \in 1..Len(written) : IsUnder(written[i].file, dir)}

\* The indices of the calls of rpc r with argument a.
CallsOf(r, a) == {i \in 1..Len(calls) : calls[i].rpc = r /\ calls[i].arg = a}

\* The download-graph command has run to its end on a fetched graph.
DownloadedGraph ==
    /\ pc = "prompt"
    /\ TopHandler = "_download_full_graph"
    /\ calls # <<>>
    /\ calls[1].rpc = "download_graph"
    /\ calls[1].ret \in Graphs

M_wp_failed == "Failed to download waypoint snapshot: "
M_edge_failed == "Failed to download edge snapshot: "

\* C11: after the download-graph command fetched a graph of K waypoints, each
\* with a snapshot id, and every waypoint snapshot download succeeded, exactly
\* K files have been written under <download path>/downloaded_graph/
\* waypoint_snapshots, one per waypoint, named by its snapshot id and holding
\* the bytes the service returned for that id.
C11_WaypointSnapshotFiles ==
    (/\ DownloadedGraph
     /\ \A n \in 1..Len(calls[1].ret.waypoints) :
           Len(calls[1].ret.waypoints[n].snapshot_id) > 0
     /\ ~HasMsg(M_wp_failed))
       => LET wps == calls[1].ret.waypoints IN
          /\ Cardinality(WritesUnder(WaypointSnapshotDir)) = Len(wps)
          /\ Cardinality({written[i].file : i \in WritesUnder(WaypointSnapshotDir)})
                = Len(wps)
          /\ \A n \in 1..Len(wps) :
                \E i \in WritesUnder(WaypointSnapshotDir) :
                   \E j \in CallsOf("download_waypoint_snapshot", wps[n].snapshot_id) :
                      /\ written[i].file
                            = WaypointSnapshotDir \o S_slash \o wps[n].snapshot_id
                      /\ calls[j].ret.snapshot_id = wps[n].snapshot_id
                      /\ written[i].data = SerializeToString(calls[j].ret)

C11_Witness ==
    /\ DownloadedGraph
    /\ calls[1].ret = GTwo
    /\ ~HasMsg(M_wp_failed)
    /\ Cardinality(WritesUnder(WaypointSnapshotDir)) = 2
    /\ \E i \in 1..Len(written) :
          /\ written[i].file = WaypointSnapshotDir \o S_slash \o Snap_s2
          /\ written[i].data.bytes_of.contents = "blob2"
    /\ \E i \in 1..Len(written) :
          /\ written[i].file = WaypointSnapshotDir \o S_slash \o Snap_s1
          /\ written[i].data.bytes_of.contents = "blob1"

M_download_failed == "Failed to download the graph."

\* C12: when the download_graph call of the download-graph command returned
\* None, the command has printed that the download failed and nothing else,
\* written no file, made no other remote call, raised nothing, and run is
\* back at its prompt.
C12_EmptyDownload ==
    (/\ TopHandler = "_download_full_graph"
     /\ calls # <<>>
     /\ calls[1].rpc = "download_graph"
     /\ calls[1].ret = NoGraph)
       => (/\ pc = "prompt"
           /\ printed = <<Msg(M_download_failed, <<>>)>>
           /\ written = <<>>
           /\ Len(calls) = 1
           /\ handler_exc = "")

C12_Witness ==
    /\ pc = "prompt"
    /\ TopHandler = "_download_full_graph"
    /\ Len(calls) = 1
    /\ calls[1].rpc = "download_graph"
    /\ calls[1].ret = NoGraph
    /\ printed = <<Msg(M_download_failed, <<>>)>>
    /\ _current_graph = GTwo

\* The remote calls logged with the status of their response.
StatusRpcs == {"clear_graph", "process_topology", "process_anchoring"}

\* Call i failed: it raised, returned a status other than OK, or returned no
\* graph.
FailedCall(i) ==
    \/ calls[i].rpc \in StatusRpcs /\ calls[i].ret \in {"not_ok", "raise"}
    \/ calls[i].rpc = "download_graph" /\ calls[i].ret \in {NoGraph, [raised |-> TRUE]}

\* C13: when run is back at its prompt after a command one of whose remote
\* calls failed (raised, returned a status other than OK, or returned no
\* graph), a message has been printed since the command was read.
C13_EveryFailureReported ==
    (pc = "prompt" /\ \E i \in 1..Len(calls) : FailedCall(i)) => printed # <<>>

\* C14: auto-close-loops and optimize-anchoring have issued one request each
\* time they ran, printed their count only for a response with status OK, and
\* printed no count for a response with another status.
C14_StatusCheckedBeforeCount ==
    /\ (pc = "prompt" /\ TopHandler = "_optimize_anchoring")
          => (/\ Len(calls) = 1
              /\ calls[1].rpc = "process_anchoring"
              /\ HasMsg("Optimized anchoring after {} iteration(s).")
                    <=> calls[1].ret = "ok"
              /\ calls[1].ret = "not_ok" => HasMsg("Error optimizing {}"))
    /\ (pc = "prompt" /\ TopHandler = "_auto_close_loops_prompt" /\ calls # <<>>)
          => (/\ Len(calls) = 1
              /\ calls[1].rpc = "process_topology"
              /\ HasMsg("Created {} new edge(s).") <=> calls[1].ret = "ok")

QuitRead == str_split(inputs) # <<>> /\ str_split(inputs)[1] = Kq

\* C15 as stated: the process has exit status 0 exactly when the session loop
\* ended by the quit command.
C15_StatusZeroOnlyByQuit ==
    exit_status(pc) = "0" <=> (pc = "returned" /\ QuitRead)

\* C15 amended: main returns True, and the process exits with status 0,
\* exactly when run ended by the quit command; main returns False, status 1,
\* exactly when an exception left run; a failed startup leaves main with an
\* exception, status 1, no line read and no handler run; and the process has
\* status 0 without main returning exactly when exit(0) was called in the key
\* loop of _capt_object.
C15_MainResult ==
    /\ main_returns(pc) = "True" <=> (pc = "returned" /\ QuitRead)
    /\ main_returns(pc) = "True" => exit_status(pc) = "0"
    /\ main_returns(pc) = "False" <=> pc = "raised"
    /\ main_returns(pc) = "False" => exit_status(pc) = "1"
    /\ pc = "startup_failed"
          => (/\ exit_status(pc) = "1"
              /\ main_returns(pc) = "no return"
              /\ inputs = <<>> /\ invoked = <<>> /\ calls = <<>> /\ printed = <<>>
              /\ _download_filepath = None)
    /\ (exit_status(pc) = "0" /\ main_returns(pc) # "True")
          <=> (pc = "exited" /\ handler_exc = "SystemExit")
    /\ exit_status(pc) = "running" <=> pc \notin (Terminal \cup {"startup_failed"})

C15_Witness ==
    /\ pc = "raised"
    /\ main_returns(pc) = "False"
    /\ exit_status(pc) = "1"
    /\ _current_graph = GTwo

\* The positions inside a handler at which input is awaited: a line at a
\* prompt, or a key in the window of _capt_object.
InputInsideHandler == {"auto_close_loops_prompt", "add_object", "waypoint_name", "capture"}

\* The handlers that read input or loop.
WaitingHandlers == {"_stop_recording", "_auto_close_loops_prompt", "_add_object"}

\* C16 as stated: input is awaited at the top-level prompt only, never while
\* a handler runs.
C16_OnlyTopLevelPrompt == pc \notin InputInsideHandler

\* C16 amended: input is awaited inside a handler only at the sub-menu of
\* auto-close-loops, which reads one line, and under add-object (its menu
\* loop, its waypoint-name prompt, its key loop); the only other waiting in a
\* handler is the retry loop of stop recording; every other handler is back
\* at the top-level prompt without having read or slept.
C16_WaitingStates ==
    /\ pc = "auto_close_loops_prompt"
          => (TopHandler = "_auto_close_loops_prompt" /\ sub_inputs = <<>> /\ calls = <<>>)
    /\ pc \in {"add_object", "waypoint_name", "capture"} => TopHandler = "_add_object"
    /\ pc = "stop_recording" => TopHandler = "_stop_recording"
    /\ sleeps > 0 => TopHandler = "_stop_recording"
    /\ sub_inputs # <<>> => TopHandler \in {"_auto_close_loops_prompt", "_add_object"}
    /\ (invoked # <<>> /\ TopHandler \notin WaitingHandlers)
          => (pc = "prompt" /\ sub_inputs = <<>> /\ sleeps = 0)
    /\ Len(invoked) <= 1

C16_Witness ==
    /\ pc = "capture"
    /\ TopHandler = "_add_object"
    /\ sub_inputs = S_dock
    /\ Len(g_image_clicks) = MaxClicks

\* A path without its trailing '/', if it has one.
StripSlash(path) ==
    IF path # <<>> /\ path[Len(path)] = "/" THEN SubSeq(path, 1, Len(path) - 1) ELSE path

\* C17: once the RecordingInterface is constructed the download path is the
\* configured path, one '/', and 'downloaded_graph', whether or not the
\* configured path ends with '/'; and no step after the construction changes
\* it.
C17_DownloadPathFixed ==
    /\ [](\A p \in DownloadPaths :
             init_download_filepath(p) = StripSlash(p) \o S_slash \o S_downloaded_graph)
    /\ [](pc \notin {"main", "startup_failed"}
             => \E p \in DownloadPaths :
                   _download_filepath = StripSlash(p) \o S_slash \o S_downloaded_graph)
    /\ [][pc # "main" => _download_filepath' = _download_filepath]_vars

C17_Witness ==
    /\ pc = "prompt"
    /\ TopHandler = "_download_full_graph"
    /\ _download_filepath = <<"/","m","/">> \o S_downloaded_graph
    /\ written # <<>>
    /\ written[1].file = <<"/","m","/">> \o S_downloaded_graph \o S_graph
    /\ _current_graph = GThree

M_not_proper == "The system is not in the proper state to start recording."
M_start_failed == "Start recording failed: "
M_started == "Successfully started recording a map."

\* What the start-recording command met: no graph, a graph without
\* waypoints, or a graph with waypoints and a robot localized to one.
MayStartRecording ==
    \/ calls[1].ret = NoGraph
    \/ calls[1].ret \in Graphs /\ Len(calls[1].ret.waypoints) = 0
    \/ /\ calls[1].ret \in Graphs
       /\ Len(calls[1].ret.waypoints) > 0
       /\ calls[2].rpc = "get_localization_state"
       /\ calls[2].ret = "localized"

\* C18: the start-recording command, its download_graph and
\* get_localization_state calls having answered, has issued a start_recording
\* request exactly if the graph is None, has no waypoints, or the robot is
\* localized; otherwise it has printed that the system is not in the proper
\* state and nothing else.  When one of the two calls raised no request was
\* issued.  A start_recording that raised was caught in the handler and
\* reported as 'Start recording failed', else success was reported.
C18_StartRecordingGuard ==
    TopHandler = "_start_recording"
       => /\ pc = "prompt"
          /\ calls # <<>> /\ calls[1].rpc = "download_graph"
          /\ handler_exc # "" => ~HasCall("start_recording")
          /\ handler_exc = ""
                => (/\ HasCall("start_recording") <=> MayStartRecording
                    /\ CountCalls("start_recording") <= 1
                    /\ ~MayStartRecording => printed = <<Msg(M_not_proper, <<>>)>>
                    /\ MayStartRecording
                          => (/\ calls[Len(calls)].rpc = "start_recording"
                              /\ printed =
                                   (IF calls[Len(calls)].ret = "raise"
                                    THEN <<Msg(M_start_failed, <<"RpcError">>)>>
                                    ELSE <<Msg(M_started, <<>>)>>)))

C18_Witness ==
    /\ pc = "prompt"
    /\ TopHandler = "_start_recording"
    /\ Len(calls) = 3
    /\ calls[1].ret = GThree
    /\ calls[2].ret = "localized"
    /\ calls[3].rpc = "start_recording"
    /\ calls[3].ret = "raise"
    /\ printed = <<Msg(M_start_failed, <<"RpcError">>)>>
    /\ handler_exc = ""

\* The waypoint of g created last, and the one created first.
ChronoLast(g) ==
    CHOOSE n \in 1..Len(g.waypoints) :
       \A k \in 1..Len(g.waypoints) : g.waypoints[k].ts <= g.waypoints[n].ts

ChronoFirst(g) ==
    CHOOSE n \in 1..Len(g.waypoints) :
       \A k \in 1..Len(g.waypoints) : g.waypoints[n].ts <= g.waypoints[k].ts

\* The create-loop command ran on one graph of at least two waypoints: each
\* of its download_graph calls returned that graph and no
\* get_localization_state call raised.
LoopOnStableGraph ==
    /\ pc = "prompt"
    /\ TopHandler = "_create_loop"
    /\ calls # <<>>
    /\ calls[1].rpc = "download_graph"
    /\ calls[1].ret \in Graphs
    /\ Len(calls[1].ret.waypoints) >= 2
    /\ \A i \in 1..Len(calls) :
          /\ calls[i].rpc = "download_graph" => calls[i].ret = calls[1].ret
          /\ calls[i].rpc = "get_localization_state" => calls[i].ret # "raise"

\* C19: the create-loop command run on a graph of at least two waypoints has
\* issued exactly one create_edge request, from the waypoint created last to
\* the waypoint created first.
C19_LoopLastToFirst ==
    LoopOnStableGraph
       => LET g == calls[1].ret IN
          /\ CountCalls("create_edge") = 1
          /\ calls[Len(calls)].rpc = "create_edge"
          /\ calls[Len(calls)].arg
                = <<g.waypoints[ChronoLast(g)].id, g.waypoints[ChronoFirst(g)].id>>
          /\ CountCalls("download_graph") = 2

C19_Witness ==
    /\ LoopOnStableGraph
    /\ calls[1].ret = GThree
    /\ calls[Len(calls)].rpc = "create_edge"
    /\ calls[Len(calls)].arg = <<Id_ab2, Id_cd3>>
    /\ handler_exc = ""

\* The snapshot ids of a sequence of waypoints or edges, in order, the empty
\* ones left out.
RECURSIVE SnapshotIdsOf(_)
SnapshotIdsOf(items) ==
    IF items = <<>> THEN <<>>
    ELSE IF Len(Head(items).snapshot_id) = 0 THEN SnapshotIdsOf(Tail(items))
    ELSE <<Head(items).snapshot_id>> \o SnapshotIdsOf(Tail(items))

\* The arguments of the calls of rpc r, in the order of the calls.
RECURSIVE ArgsOfCalls(_, _)
ArgsOfCalls(cs, r) ==
    IF cs = <<>> THEN <<>>
    ELSE IF Head(cs).rpc = r THEN <<Head(cs).arg>> \o ArgsOfCalls(Tail(cs), r)
    ELSE ArgsOfCalls(Tail(cs), r)

\* For the snapshots of items, downloaded by rpc r into dir, failures reported
\* by message m: one request per non-empty snapshot id, in order, whatever
\* failed before; a failed one is reported and has no file; a successful one
\* has its file; and every file under dir holds what a successful request
\* returned.
SnapshotsHandled(items, r, dir, m) ==
    /\ ArgsOfCalls(calls, r) = SnapshotIdsOf(items)
    /\ \A i \in 1..Len(calls) :
          calls[i].rpc = r
             => /\ Len(calls[i].arg) > 0
                /\ IF calls[i].ret = [raised |-> TRUE]
                   THEN /\ \E k \in 1..Len(printed) : printed[k] = Msg(m, calls[i].arg)
                        /\ \A w \in 1..Len(written) :
                              written[w].file # dir \o S_slash \o calls[i].arg
                   ELSE /\ \A k \in 1..Len(printed) : printed[k] # Msg(m, calls[i].arg)
                        /\ \E w \in 1..Len(written) :
                              /\ written[w].file = dir \o S_slash \o calls[i].arg
                              /\ written[w].data = SerializeToString(calls[i].ret)
    /\ \A w \in WritesUnder(dir) :
          \E i \in 1..Len(calls) :
             /\ calls[i].rpc = r
             /\ calls[i].ret # [raised |-> TRUE]
             /\ written[w].file = dir \o S_slash \o calls[i].arg
             /\ written[w].data = SerializeToString(calls[i].ret)

\* C20: after the download-graph command fetched a graph, a waypoint or edge
\* without snapshot id has caused no request and no file; each other one has
\* caused one request, also after failed ones; a failed download is reported
\* and has no file; and every snapshot file holds what a successful download
\* returned.
C20_SnapshotFailuresSkipped ==
    DownloadedGraph
       => /\ SnapshotsHandled(calls[1].ret.waypoints, "download_waypoint_snapshot",
                              WaypointSnapshotDir, M_wp_failed)
          /\ SnapshotsHandled(calls[1].ret.edges, "download_edge_snapshot",
                              EdgeSnapshotDir, M_edge_failed)
          /\ handler_exc = ""

C20_Witness ==
    /\ DownloadedGraph
    /\ calls[1].ret = GThree
    /\ ArgsOfCalls(calls, "download_waypoint_snapshot") = <<Snap_s2, Snap_s1>>
    /\ HasMsg(M_wp_failed)
    /\ \E k \in 1..Len(printed) : printed[k] = Msg(M_wp_failed, Snap_s2)
    /\ \E w \in 1..Len(written) :
          written[w].file = WaypointSnapshotDir \o S_slash \o Snap_s1
    /\ \E w \in 1..Len(written) :
          written[w].file = EdgeSnapshotDir \o S_slash \o Snap_e1
    /\ Len(written) = 3

\* ------------------------------------------------------- claims C21 to C27

\* The auto-close-loops command has read a line with a token at its prompt.
AutoCloseRead ==
    /\ TopHandler = "_auto_close_loops_prompt"
    /\ pc # "auto_close_loops_prompt"
    /\ str_split(sub_inputs) # <<>>

\* The process_topology request with the two loop closures set as given.
TopologyRequest(fiducial, odometry) ==
    /\ Len(calls) = 1
    /\ calls[1].rpc = "process_topology"
    /\ calls[1].arg = <<fiducial, odometry>>

\* C21: after the auto-close-loops prompt read a line, option '0' has issued
\* one process_topology request with both loop closures enabled, '1' one with
\* only the fiducial one, '2' one with only the odometry one; 'q' and every
\* other token have issued no request; and run is back at its prompt.
C21_AutoCloseOptions ==
    AutoCloseRead
       => LET t == str_split(sub_inputs)[1] IN
          /\ pc = "prompt"
          /\ t = K0 => TopologyRequest("True", "True")
          /\ t = K1 => TopologyRequest("True", "False")
          /\ t = K2 => TopologyRequest("False", "True")
          /\ t \notin {K0, K1, K2} => calls = <<>>
          /\ t = Kq => printed = <<>>
          /\ t \notin {K0, K1, K2, Kq}
                => printed = <<Msg("Unrecognized command. Going back.", <<>>)>>

C21_Witness ==
    /\ AutoCloseRead
    /\ sub_inputs = <<"1"," ","h","o","m","e">>
    /\ TopologyRequest("True", "False")
    /\ calls[1].ret = "ok"
    /\ pc = "prompt"

\* C22: the add-object command, get_record_status having answered, is in its
\* sub-menu only if recording is on; with recording off it has printed its
\* message, read no input, and run is back at its prompt; and once it was in
\* its sub-menu, it has left it only by the token 'q'.
C22_SubMenuUntilQuit ==
    TopHandler = "_add_object"
       => /\ (HasCall("get_record_status") /\ pc \notin InputInsideHandler)
                => (/\ pc = "prompt"
                    /\ sub_inputs = <<>>
                    /\ calls = <<[rpc |-> "get_record_status", arg |-> <<>>]>>
                    /\ handler_exc = ""
                          => printed = <<Msg("Start recording to capture object.", <<>>)>>)
          /\ (~HasCall("get_record_status") /\ pc \notin InputInsideHandler)
                => (/\ pc = "prompt"
                    /\ str_split(sub_inputs) # <<>>
                    /\ str_split(sub_inputs)[1] = Kq)

\* C23: whenever run is at its prompt, the cached maps are the ones derived
\* from the cached graph: with no cached graph they are empty, else they are
\* what update_waypoints_and_edges computes from it.
C23_CacheConsistent ==
    pc = "prompt"
       => IF _current_graph = NoGraph
          THEN _current_annotation_name_to_wp_id = <<>> /\ _current_edges = <<>>
          ELSE /\ _current_annotation_name_to_wp_id
                     = update_waypoints_and_edges(_current_graph).names
               /\ _current_edges = update_waypoints_and_edges(_current_graph).edges

\* C24: a line without a token read at the top-level prompt has not ended
\* the session and has invoked no handler: run is deciding on it or is back
\* at its prompt.
C24_BlankLineContinues ==
    (pc \notin {"main", "startup_failed"} /\ str_split(inputs) = <<>>)
       => (pc \in {"prompt", "dispatch"} /\ invoked = <<>>)

\* The commands that refresh the cache: list (6), create-edge (7) and
\* create-loop (8).
CacheCommands == {K6, K7, K8}

\* C25: a step changes the cached graph, the cached edge map or the cached
\* name map only if it is run calling the handler of the list, create-edge or
\* create-loop command; every other step, of every other command and of the
\* sub-menus, leaves the three as they were.
C25_CacheFrame ==
    [][(\/ _current_graph' # _current_graph
        \/ _current_edges' # _current_edges
        \/ _current_annotation_name_to_wp_id' # _current_annotation_name_to_wp_id)
       => (/\ pc = "dispatch"
           /\ str_split(inputs) # <<>>
           /\ str_split(inputs)[1] \in CacheCommands)]_vars

C25_Witness ==
    /\ pc = "prompt"
    /\ TopHandler = "_download_full_graph"
    /\ calls[1].ret = GTwo
    /\ written # <<>>
    /\ _current_graph = GThree
    /\ _current_edges = update_waypoints_and_edges(GThree).edges

\* The graphs with a waypoint whose annotation name is dock.
GraphsWithDock == {g \in Graphs : \E i \in 1..Len(g.waypoints) : g.waypoints[i].name = S_dock}

\* C26: when _capt_object was run for the waypoint name dock, the downloaded
\* graph has a waypoint of that name, and the key loop was ended with at
\* least one object selected, the graph has been uploaded exactly once and
\* nothing was raised.
C26_CaptureUploadsOnce ==
    (/\ pc = "add_object"
     /\ sub_inputs = S_dock
     /\ \E i \in 1..Len(calls) :
           calls[i].rpc = "download_graph" /\ calls[i].ret \in GraphsWithDock
     /\ HasMsg("Ending selection.")
     /\ g_image_clicks # <<>>)
       => (/\ CountCalls("upload_graph") = 1
           /\ ~HasMsg("print(e)"))

\* C27: when cycle_power.main has ended, power_command_feedback was
\* attempted if power_command returned or raised LeaseUseError;
\* LeaseUseError of the first call and InvalidRequestError of the second
\* were printed and did not end main; any other exception left main; and the
\* exit status is 0 when both calls returned or raised only these two.
C27_PowerCycle ==
    (power_pc \in {"returned", "raised"} /\ power_calls # <<>>)
       => /\ power_calls[1].rpc = "power_command"
          /\ power_calls[1].ret \in {"ok", "LeaseUseError"}
                => (/\ Len(power_calls) = 2
                    /\ power_calls[2].rpc = "power_command_feedback")
          /\ power_calls[1].ret \notin {"ok", "LeaseUseError"}
                => (Len(power_calls) = 1 /\ power_pc = "raised")
          /\ power_calls[1].ret = "LeaseUseError"
                => power_printed[1] = Msg("{}", <<"LeaseUseError">>)
          /\ Len(power_calls) = 2
                => (power_pc = "returned"
                      <=> power_calls[2].ret \in {"ok", "InvalidRequestError"})
          /\ (Len(power_calls) = 2 /\ power_calls[2].ret = "InvalidRequestError")
                => power_printed[Len(power_printed)] = Msg("{}", <<"InvalidRequestError">>)
          /\ power_pc = "returned" => cycle_power_exit_status(power_pc) = "0"
          /\ power_pc = "raised" => cycle_power_exit_status(power_pc) = "1"

====
